---- MODULE Spec2Model ----
(***************************************************************************)
(* The client-side session layer of the SolidWorks Voice AI front-end:     *)
(* BackendClient (src/ui/src/backend.rs) and the part of VoiceAiApp        *)
(* (src/ui/src/app.rs) that drives it.                                     *)
(*                                                                         *)
(* Strings the program looks into (trim, is_empty) are sequences of        *)
(* one-character strings; strings it only stores are atoms.                *)
(***************************************************************************)
EXTENDS Integers, Sequences, FiniteSets, TLC

VARIABLES
    backend,        \* VoiceAiApp.backend : BackendClient (all its fields)
    command_input,  \* VoiceAiApp.command_input
    show_settings,  \* VoiceAiApp.show_settings
    backend_url,    \* VoiceAiApp.backend_url
    inbound,        \* frames the backend has put on the wire, not yet read
    outbound,       \* ClientMessages handed to the WebSocket, oldest first
    trace           \* history variable: the operations performed, in order

vars == <<backend, command_input, show_settings, backend_url, inbound, outbound, trace>>

\* ------------------------------------------------------------------ bounds

\* Operations performed on one client in the general specification.
MaxOps == 4

\* Frames (calls of VoiceAiApp::update) in the application's specification.
MaxFrames == 6

\* ---------------------------------------------------------------- data types

ConnectionStatus == {"Connected", "Disconnected", "Connecting"}

\* VecDeque::with_capacity(500): the number the history is allocated for.
HistoryCapacity == 500

DefaultUrl == "ws://127.0.0.1:9100"

FeatureEntry(feature_type, label, user_intent) ==
    [feature_type |-> feature_type, label |-> label, user_intent |-> user_intent,
     parameters |-> "null", timestamp |-> ""]

HistoryEntry(timestamp, command, action, result) ==
    [timestamp |-> timestamp, command |-> command, action |-> action, result |-> result]

\* ServerMessage, tagged by "type".
Status(solidworks, qdrant, ollama, claude) ==
    [type |-> "status", solidworks |-> solidworks, qdrant |-> qdrant,
     ollama |-> ollama, claude |-> claude]

Listening(active) == [type |-> "listening", active |-> active]

Transcription(text) == [type |-> "transcription", text |-> text]

Action(command, action, result) ==
    [type |-> "action", command |-> command, action |-> action, result |-> result]

Features(items) == [type |-> "features", items |-> items]

Waveform(samples) == [type |-> "waveform", samples |-> samples]

\* ClientMessage, tagged by "type".
Command(text) == [type |-> "command", text |-> text]

Listen(start) == [type |-> "listen", start |-> start]

\* ------------------------------------------------------------ BackendClient

BackendClient_new(url) ==
    [url |-> url,
     status |-> "Disconnected",
     listening |-> FALSE,
     solidworks_ok |-> FALSE,
     qdrant_ok |-> FALSE,
     ollama_ok |-> FALSE,
     claude_ok |-> FALSE,
     features |-> <<>>,
     history |-> <<>>,
     waveform |-> <<>>,
     last_transcription |-> <<>>]

\* A faulty variant: the entry goes to the back.
push_back_instead(deque, entry) == Append(deque, entry)

\* VecDeque::push_front: the deque grows when it is full; nothing is evicted.
push_front(deque, entry) == <<entry>> \o deque

\* A faulty variant: with no socket to read, the client is marked Disconnected.
poll_marking_disconnected(c) == [c EXCEPT !.status = "Disconnected"]

\* poll: the body is empty.
poll(c) == c

connection_status(c) == c.status

is_listening(c) == c.listening

\* The result text of an entry made by send_command; the source ends it with
\* the single character U+2026, written here as three dots.
PendingResult == "Sent to backend..."

\* A faulty variant: the command is dropped while there is no connection.
send_command_if_connected(c, text, now) ==
    IF c.status = "Connected"
    THEN [c EXCEPT !.history = <<HistoryEntry(now, text, "pending", PendingResult)>> \o @]
    ELSE c

\* now: the wall clock's "%H:%M:%S" reading when the entry is made.
send_command(c, text, now) ==
    [c EXCEPT !.history = push_front(@, HistoryEntry(now, text, "pending", PendingResult))]

\* A faulty variant: the toggle is dropped while there is no connection.
toggle_listening_if_connected(c) ==
    IF c.status = "Connected" THEN [c EXCEPT !.listening = ~@] ELSE c

toggle_listening(c) == [c EXCEPT !.listening = ~@]

\* Faulty variants of the arms below. Each property that is claimed to hold
\* of the code is also checked to fail when one of these takes the arm's place.

\* A Status arm that merges the new flags into the old ones.
on_status_merging(c, msg) ==
    [c EXCEPT !.solidworks_ok = @ \/ msg.solidworks,
              !.qdrant_ok = @ \/ msg.qdrant,
              !.ollama_ok = @ \/ msg.ollama,
              !.claude_ok = @ \/ msg.claude,
              !.status = "Connected"]

\* A Status arm that forgets the connection status.
on_status_flags_only(c, msg) ==
    [c EXCEPT !.solidworks_ok = msg.solidworks,
              !.qdrant_ok = msg.qdrant,
              !.ollama_ok = msg.ollama,
              !.claude_ok = msg.claude]

\* A Status arm that also takes the backend to be idle again.
on_status_resetting(c, msg) ==
    [c EXCEPT !.solidworks_ok = msg.solidworks,
              !.qdrant_ok = msg.qdrant,
              !.ollama_ok = msg.ollama,
              !.claude_ok = msg.claude,
              !.status = "Connected",
              !.listening = FALSE]

\* A Listening arm that cannot switch off a flag the user toggled on.
on_listening_sticky(c, msg) == [c EXCEPT !.listening = @ \/ msg.active]

\* An Action arm that resolves a pending entry of the same command in place.
on_action_reconciling(c, msg, now) ==
    IF /\ c.history # <<>>
       /\ Head(c.history).command = msg.command
       /\ Head(c.history).action = "pending"
    THEN [c EXCEPT !.history =
            <<HistoryEntry(now, msg.command, msg.action, msg.result)>> \o Tail(@)]
    ELSE [c EXCEPT !.history =
            <<HistoryEntry(now, msg.command, msg.action, msg.result)>> \o @]

\* A Features arm that adds the items to the ones it has.
on_features_appending(c, msg) == [c EXCEPT !.features = @ \o msg.items]

\* A Waveform arm that keeps the old buffer when no samples come.
on_waveform_skipping_empty(c, msg) ==
    IF msg.samples = <<>> THEN c ELSE [c EXCEPT !.waveform = msg.samples]

\* The arms of handle_message's match.
on_status(c, msg) ==
    [c EXCEPT !.solidworks_ok = msg.solidworks,
              !.qdrant_ok = msg.qdrant,
              !.ollama_ok = msg.ollama,
              !.claude_ok = msg.claude,
              !.status = "Connected"]

on_listening(c, msg) == [c EXCEPT !.listening = msg.active]

on_transcription(c, msg) == [c EXCEPT !.last_transcription = msg.text]

on_action(c, msg, now) ==
    [c EXCEPT !.history =
        push_front(@, HistoryEntry(now, msg.command, msg.action, msg.result))]

on_features(c, msg) == [c EXCEPT !.features = msg.items]

on_waveform(c, msg) == [c EXCEPT !.waveform = msg.samples]

handle_message(c, msg, now) ==
    CASE msg.type = "status" -> on_status(c, msg)
      [] msg.type = "listening" -> on_listening(c, msg)
      [] msg.type = "transcription" -> on_transcription(c, msg)
      [] msg.type = "action" -> on_action(c, msg, now)
      [] msg.type = "features" -> on_features(c, msg)
      [] msg.type = "waveform" -> on_waveform(c, msg)

\* ------------------------------------------------------------------ inputs

Whitespace == {" "}

\* str::trim: the text without its leading and trailing whitespace.
RECURSIVE trim_start(_)
trim_start(text) ==
    IF text # <<>> /\ Head(text) \in Whitespace THEN trim_start(Tail(text)) ELSE text

RECURSIVE trim_end(_)
trim_end(text) ==
    IF text # <<>> /\ text[Len(text)] \in Whitespace
    THEN trim_end(SubSeq(text, 1, Len(text) - 1))
    ELSE text

\* A faulty variant: only the leading whitespace is taken off.
trim_leading_only(text) == trim_start(text)

trim(text) == trim_end(trim_start(text))

is_empty(text) == Len(text) = 0

\* command_input.trim().is_empty(): the text is empty or whitespace only.
IsBlank(text) == is_empty(trim(text))

ExtrudeBoss == <<"e", "x", "t", "r", "u", "d", "e", " ", "b", "o", "s", "s">>

Texts == {<<>>, <<" ">>, <<"a">>}

\* Readings of chrono::Local::now().format("%H:%M:%S").
Timestamps == {"09:00:00", "09:00:01"}

AllUp == Status(TRUE, TRUE, TRUE, TRUE)

StatusMsgs == {AllUp, Status(TRUE, FALSE, TRUE, FALSE), Status(FALSE, FALSE, TRUE, TRUE)}

ListeningMsgs == {Listening(TRUE), Listening(FALSE)}

TranscriptionMsgs == {Transcription(<<>>), Transcription(<<"a">>)}

ExtrudeAction == Action(ExtrudeBoss, "extrude", "done")

ActionMsgs == {ExtrudeAction, Action(<<"a">>, "sketch", "ok")}

Extrude1 == FeatureEntry("extrude", "Extrude1", "make a boss")

Sketch1 == FeatureEntry("sketch", "Sketch1", "draw a circle")

ExtrudeFeatures == Features(<<Extrude1>>)

FeaturesMsgs == {Features(<<>>), ExtrudeFeatures, Features(<<Sketch1, Extrude1>>)}

\* Samples are f32 amplitudes; whole numbers stand for them.
WaveformMsgs == {Waveform(<<>>), Waveform(<<1, -1>>)}

ServerMessages ==
    StatusMsgs \cup ListeningMsgs \cup TranscriptionMsgs \cup ActionMsgs
        \cup FeaturesMsgs \cup WaveformMsgs

\* The tags of ServerMessage's variants (their serde renames).
RecognizedTags ==
    {"status", "listening", "transcription", "action", "features", "waveform"}

\* Deserialize for ServerMessage, tagged by "type": a frame with another tag
\* is an error and gives no message.
decode(frame) ==
    IF frame.type \in RecognizedTags
    THEN [ok |-> TRUE, msg |-> frame]
    ELSE [ok |-> FALSE, error |-> "UnknownVariant"]

\* A frame of a newer server, with a tag this client does not know.
Ping == [type |-> "ping"]

\* Frames the backend puts on the wire in this model.
WireFrames == {Waveform(<<1, -1>>), AllUp, Ping}

\* Entries of trace.
PollOp == [op |-> "poll"]

SendOp(text, now) == [op |-> "send_command", text |-> text, now |-> now]

ToggleOp == [op |-> "toggle_listening"]

HandleOp(msg, now) == [op |-> "handle_message", msg |-> msg, now |-> now]

WireOp(frame) == [op |-> "wire", frame |-> frame]

\* --------------------------------------------------------------------- Init

Init ==
    /\ backend = BackendClient_new(DefaultUrl)
    /\ command_input = <<>>
    /\ show_settings = FALSE
    /\ backend_url = DefaultUrl
    /\ inbound = <<>>
    /\ outbound = <<>>
    /\ trace = <<>>

appUnchanged == UNCHANGED <<command_input, show_settings, backend_url>>

\* ------------------------------------------- operations on one BackendClient

Poll ==
    /\ Len(trace) < MaxOps
    /\ backend' = poll(backend)
    /\ trace' = Append(trace, PollOp)
    /\ UNCHANGED <<inbound, outbound>>
    /\ appUnchanged

SendCommand ==
    /\ Len(trace) < MaxOps
    /\ \E text \in Texts, now \in Timestamps :
        /\ backend' = send_command(backend, text, now)
        /\ trace' = Append(trace, SendOp(text, now))
    /\ UNCHANGED <<inbound, outbound>>
    /\ appUnchanged

ToggleListening ==
    /\ Len(trace) < MaxOps
    /\ backend' = toggle_listening(backend)
    /\ trace' = Append(trace, ToggleOp)
    /\ UNCHANGED <<inbound, outbound>>
    /\ appUnchanged

HandleMessage ==
    /\ Len(trace) < MaxOps
    /\ \E msg \in ServerMessages :
        \E now \in (IF msg.type = "action" THEN Timestamps ELSE {"09:00:00"}) :
            /\ backend' = handle_message(backend, msg, now)
            /\ trace' = Append(trace, HandleOp(msg, now))
    /\ UNCHANGED <<inbound, outbound>>
    /\ appUnchanged

\* The backend writes a frame to the socket: no code of the client runs.
BackendWrites ==
    /\ Len(trace) < MaxOps
    /\ \E frame \in WireFrames :
        /\ inbound' = Append(inbound, frame)
        /\ trace' = Append(trace, WireOp(frame))
    /\ UNCHANGED <<backend, outbound>>
    /\ appUnchanged

\* Any interleaving of the client's public operations.
Next ==
    \/ Poll
    \/ SendCommand
    \/ ToggleListening
    \/ HandleMessage

Spec == Init /\ [][Next]_vars

\* The client's own calls (the ones the application makes) while the
\* backend writes frames to the socket.
NextWire ==
    \/ Poll
    \/ SendCommand
    \/ ToggleListening
    \/ BackendWrites

SpecWire == Init /\ [][NextWire]_vars

\* ------------------------------------------------------------- VoiceAiApp
\* One call of update with at most one user event in it. trace records the
\* event and then the calls update makes on the client: it polls first.

Inputs == {<<>>, <<" ">>, <<"a">>, <<" ", "a", " ">>}

Urls == {DefaultUrl, "ws://127.0.0.1:9200"}

\* Entries of trace: the user's event of a frame, and a client's construction.
UiOp(event) == [op |-> "ui", event |-> event]

TypedOp(text) == [op |-> "ui", event |-> "type", text |-> text]

UrlOp(url) == [op |-> "ui", event |-> "url", url |-> url]

NewOp(url) == [op |-> "new", url |-> url]

Frames == {i \in DOMAIN trace : trace[i].op = "ui"}

FrameFits == Cardinality(Frames) < MaxFrames

\* A frame without an event.
Idle ==
    /\ FrameFits
    /\ backend' = poll(backend)
    /\ trace' = trace \o <<UiOp("none"), PollOp>>
    /\ UNCHANGED <<inbound, outbound>>
    /\ appUnchanged

\* The user edits the command line.
TypeCommand ==
    /\ FrameFits
    /\ \E text \in Inputs :
        /\ text # command_input
        /\ command_input' = text
        /\ trace' = trace \o <<TypedOp(text), PollOp>>
    /\ backend' = poll(backend)
    /\ UNCHANGED <<show_settings, backend_url, inbound, outbound>>

\* "Send" clicked, or Enter pressed in the command line.
Submit ==
    /\ FrameFits
    /\ IF ~is_empty(trim(command_input))
       THEN \E now \in Timestamps :
            /\ backend' = send_command(poll(backend), trim(command_input), now)
            /\ trace' = trace \o <<UiOp("submit"), PollOp, SendOp(trim(command_input), now)>>
            /\ command_input' = <<>>
       ELSE /\ backend' = poll(backend)
            /\ trace' = trace \o <<UiOp("submit"), PollOp>>
            /\ UNCHANGED command_input
    /\ UNCHANGED <<show_settings, backend_url, inbound, outbound>>

\* "Mic" clicked.
Mic ==
    /\ FrameFits
    /\ backend' = toggle_listening(poll(backend))
    /\ trace' = trace \o <<UiOp("mic"), PollOp, ToggleOp>>
    /\ UNCHANGED <<inbound, outbound>>
    /\ appUnchanged

\* "Settings" clicked in the top bar.
SettingsButton ==
    /\ FrameFits
    /\ show_settings' = ~show_settings
    /\ backend' = poll(backend)
    /\ trace' = trace \o <<UiOp("settings"), PollOp>>
    /\ UNCHANGED <<command_input, backend_url, inbound, outbound>>

\* The URL field of the Settings window is edited.
EditUrl ==
    /\ FrameFits
    /\ show_settings
    /\ \E url \in Urls :
        /\ url # backend_url
        /\ backend_url' = url
        /\ trace' = trace \o <<UrlOp(url), PollOp>>
    /\ backend' = poll(backend)
    /\ UNCHANGED <<command_input, show_settings, inbound, outbound>>

\* A faulty variant of Reconnect: the session is kept and only pointed at
\* the new address.
Reconnect_keeping_session ==
    /\ FrameFits
    /\ show_settings
    /\ backend' = [poll(backend) EXCEPT !.url = backend_url]
    /\ trace' = trace \o <<UiOp("reconnect"), PollOp, NewOp(backend_url)>>
    /\ UNCHANGED <<inbound, outbound>>
    /\ appUnchanged

\* "Reconnect" clicked in the Settings window: the polled client is dropped
\* and a new one takes its place.
Reconnect ==
    /\ FrameFits
    /\ show_settings
    /\ backend' = BackendClient_new(backend_url)
    /\ trace' = trace \o <<UiOp("reconnect"), PollOp, NewOp(backend_url)>>
    /\ UNCHANGED <<inbound, outbound>>
    /\ appUnchanged

\* "Close" clicked in the Settings window.
Close ==
    /\ FrameFits
    /\ show_settings
    /\ show_settings' = FALSE
    /\ backend' = poll(backend)
    /\ trace' = trace \o <<UiOp("close"), PollOp>>
    /\ UNCHANGED <<command_input, backend_url, inbound, outbound>>

NextApp ==
    \/ Idle
    \/ TypeCommand
    \/ Submit
    \/ Mic
    \/ SettingsButton
    \/ EditUrl
    \/ Reconnect
    \/ Close

SpecApp == Init /\ [][NextApp]_vars

\* ------------------------------------------------ filling the history (C1)

FillText == <<"a">>

FillAction == Action(FillText, "sketch", "ok")

\* One client receives send_command and Action alternately until its history
\* has been inserted into HistoryCapacity + 1 times.
FillSendCommand ==
    /\ Len(trace) <= HistoryCapacity
    /\ Len(trace) % 2 = 0
    /\ backend' = send_command(backend, FillText, "09:00:00")
    /\ trace' = Append(trace, SendOp(FillText, "09:00:00"))
    /\ UNCHANGED <<inbound, outbound>>
    /\ appUnchanged

FillHandleAction ==
    /\ Len(trace) <= HistoryCapacity
    /\ Len(trace) % 2 = 1
    /\ backend' = handle_message(backend, FillAction, "09:00:01")
    /\ trace' = Append(trace, HandleOp(FillAction, "09:00:01"))
    /\ UNCHANGED <<inbound, outbound>>
    /\ appUnchanged

NextFill ==
    \/ FillSendCommand
    \/ FillHandleAction

SpecFill == Init /\ [][NextFill]_vars

\* ------------------------------------------------------------------ claims

\* C1: in every state reached from BackendClient::new by send_command calls
\* and Action messages the history holds at most 500 entries (an insertion
\* at length 500 evicts the oldest entry).
C1_HistoryWithinCapacity == Len(backend.history) <= HistoryCapacity

\* What the step just taken did: every operation appends one entry to trace.
Stepped == Len(trace') = Len(trace) + 1

StepOp == trace'[Len(trace')]

LastOp == trace[Len(trace)]

HealthFlags(c) == <<c.solidworks_ok, c.qdrant_ok, c.ollama_ok, c.claude_ok>>

StatusFields(msg) == <<msg.solidworks, msg.qdrant, msg.ollama, msg.claude>>

IsHandled(op, type) == op.op = "handle_message" /\ op.msg.type = type

\* The places of trace where a Status message was applied.
StatusApplied == {i \in DOMAIN trace : IsHandled(trace[i], "status")}

Latest(S) == CHOOSE i \in S : \A j \in S : j <= i

\* C2: after any sequence of operations the four health flags equal the
\* fields of the most recent Status message applied, and are all false when
\* none has been applied; so no other operation changes a flag.
C2_HealthIsLastStatus ==
    HealthFlags(backend) =
        IF StatusApplied = {} THEN <<FALSE, FALSE, FALSE, FALSE>>
        ELSE StatusFields(trace[Latest(StatusApplied)].msg)

\* Two different Status messages were applied, another operation followed,
\* and the flags are those of the second message.
C2_Witness ==
    /\ Cardinality(StatusApplied) = 2
    /\ \E i, j \in StatusApplied :
        /\ i < j
        /\ j < Len(trace)
        /\ StatusFields(trace[i].msg) # StatusFields(trace[j].msg)
        /\ HealthFlags(backend) = StatusFields(trace[j].msg)
        /\ HealthFlags(backend) # <<TRUE, TRUE, TRUE, TRUE>>

\* C3: send_command with an empty or whitespace-only text changes neither
\* the history nor the outbound messages.
C3_BlankSendIsNoOp ==
    [][(Stepped /\ StepOp.op = "send_command" /\ IsBlank(StepOp.text))
        => (backend'.history = backend.history /\ outbound' = outbound)]_vars

\* C4: send_command with a non-blank text on a client that is not Connected
\* puts exactly one entry at the front of the history, with that command and
\* an action/result that are not the in-flight ones, and sends nothing.
C4_DisconnectedSendIsMarkedFailed ==
    [][(/\ Stepped
        /\ StepOp.op = "send_command"
        /\ ~IsBlank(StepOp.text)
        /\ connection_status(backend) # "Connected")
        => (/\ Len(backend'.history) = Len(backend.history) + 1
            /\ Tail(backend'.history) = backend.history
            /\ Head(backend'.history).command = StepOp.text
            /\ ~(/\ Head(backend'.history).action = "pending"
                 /\ Head(backend'.history).result = PendingResult)
            /\ outbound' = outbound)]_vars

\* The end-to-end scenario: exactly Status{all true}, Features{[Extrude1]},
\* Action{"extrude boss", "extrude", "done"} applied to a fresh client.
ScenarioRun ==
    /\ Len(trace) = 3
    /\ \A i \in 1..3 : trace[i].op = "handle_message"
    /\ trace[1].msg = AllUp
    /\ trace[2].msg = ExtrudeFeatures
    /\ trace[3].msg = ExtrudeAction

\* C5: the scenario leaves all four health flags true, the status Connected,
\* one feature labelled "Extrude1", and one history entry with action
\* "extrude" and result "done".
C5_ScenarioOutcome ==
    ScenarioRun =>
        /\ HealthFlags(backend) = <<TRUE, TRUE, TRUE, TRUE>>
        /\ connection_status(backend) = "Connected"
        /\ Len(backend.features) = 1
        /\ backend.features[1].label = "Extrude1"
        /\ Len(backend.history) = 1
        /\ backend.history[1].action = "extrude"
        /\ backend.history[1].result = "done"

C5_Witness == ScenarioRun /\ backend.history[1].command = ExtrudeBoss

\* C6: a Listening{active} message sets the listening flag to active whatever
\* toggles came before, and the flag then keeps its value over every
\* operation that is neither toggle_listening nor a Listening message.
C6_ListeningIsAuthoritative ==
    [][Stepped =>
        /\ IsHandled(StepOp, "listening") => is_listening(backend') = StepOp.msg.active
        /\ (~IsHandled(StepOp, "listening") /\ StepOp # ToggleOp)
                => is_listening(backend') = is_listening(backend)]_vars

\* The user toggled listening on, Listening{false} arrived, another kind of
\* operation followed, and the flag is off.
C6_Witness ==
    /\ Len(trace) >= 3
    /\ trace[1] = ToggleOp
    /\ IsHandled(trace[2], "listening")
    /\ trace[2].msg.active = FALSE
    /\ trace[3].op \in {"poll", "send_command"}
    /\ is_listening(backend) = FALSE

\* C7: an Action message puts exactly one new entry at the front of the
\* history and leaves every earlier entry that is still within capacity as it
\* was; after send_command(c) an Action for c leaves both entries, the
\* Action's in front of the pending one.
C7_ActionAlwaysInserts ==
    [][(Stepped /\ IsHandled(StepOp, "action")) =>
        LET msg == StepOp.msg
            new == HistoryEntry(StepOp.now, msg.command, msg.action, msg.result)
        IN  /\ Len(backend'.history) = Len(backend.history) + 1
            /\ backend'.history[1] = new
            /\ \A i \in DOMAIN backend.history :
                    i + 1 <= HistoryCapacity => backend'.history[i + 1] = backend.history[i]
            /\ (/\ trace # <<>>
                /\ LastOp.op = "send_command"
                /\ LastOp.text = msg.command)
                    => backend'.history[2] =
                            HistoryEntry(LastOp.now, LastOp.text, "pending", PendingResult)]_vars

\* send_command(c) was followed by an Action for the same c: both entries
\* are in the history.
C7_Witness ==
    /\ Len(trace) >= 2
    /\ trace[Len(trace) - 1].op = "send_command"
    /\ IsHandled(LastOp, "action")
    /\ trace[Len(trace) - 1].text = LastOp.msg.command
    /\ backend.history[1].action = LastOp.msg.action
    /\ backend.history[2].action = "pending"
    /\ backend.history[2].command = backend.history[1].command

AllowedTransitions ==
    {<<"Disconnected", "Connecting">>, <<"Connecting", "Connected">>,
     <<"Connecting", "Disconnected">>, <<"Connected", "Disconnected">>}

\* C8: every change of the connection status is one of Disconnected ->
\* Connecting, Connecting -> Connected, Connecting -> Disconnected and
\* Connected -> Disconnected.
C8_OnlyAllowedTransitions ==
    [][connection_status(backend') # connection_status(backend)
        => <<connection_status(backend), connection_status(backend')>> \in AllowedTransitions]_vars

\* The frames decoded and applied in order, a frame that does not decode
\* being dropped (none of the wire's frames reads the clock).
RECURSIVE ApplyAll(_, _)
ApplyAll(c, frames) ==
    IF frames = <<>> THEN c
    ELSE IF decode(Head(frames)).ok
    THEN ApplyAll(handle_message(c, decode(Head(frames)).msg, "09:00:00"), Tail(frames))
    ELSE ApplyAll(c, Tail(frames))

\* C9: when poll returns, the frames that were waiting have all been applied
\* to the session state, in their order of arrival, and none is left.
C9_PollDrainsInbound ==
    [][(Stepped /\ StepOp = PollOp)
        => (inbound' = <<>> /\ backend' = ApplyAll(backend, inbound))]_vars

\* C10: send_command with a non-blank text hands exactly one Command{text} to
\* the transport, toggle_listening exactly one Listen{start} with start the
\* new value of the flag, and no other operation sends anything.
C10_IntentsAreSent ==
    [][Stepped =>
        outbound' =
            IF StepOp.op = "send_command" /\ ~IsBlank(StepOp.text)
                THEN Append(outbound, Command(StepOp.text))
            ELSE IF StepOp = ToggleOp
                THEN Append(outbound, Listen(is_listening(backend')))
            ELSE outbound]_vars

\* The places of trace where the listening flag was written: a toggle or a
\* Listening message.
ListeningWritten ==
    {i \in DOMAIN trace : trace[i] = ToggleOp \/ IsHandled(trace[i], "listening")}

\* The listening flag that the toggles and Listening messages among the first
\* n operations call for.
RECURSIVE ListeningAfter(_)
ListeningAfter(n) ==
    IF n = 0 THEN FALSE
    ELSE IF trace[n] = ToggleOp THEN ~ListeningAfter(n - 1)
    ELSE IF IsHandled(trace[n], "listening") THEN trace[n].msg.active
    ELSE ListeningAfter(n - 1)

\* C11: toggle_listening called while the status is Disconnected negates the
\* listening flag, and that value stays until the next toggle_listening or
\* Listening message: no other operation resets it.
C11_DisconnectedToggleSticks ==
    ListeningWritten # {} =>
        LET k == Latest(ListeningWritten)
        IN  (trace[k] = ToggleOp /\ \A i \in StatusApplied : i > k)
                => is_listening(backend) = ~ListeningAfter(k - 1)

\* The flag was toggled on while Disconnected, then only a poll, a
\* send_command and messages other than Listening followed; it is still on.
C11_Witness ==
    /\ Len(trace) >= 3
    /\ trace[1] = ToggleOp
    /\ \A i \in 2..Len(trace) : i \notin ListeningWritten
    /\ \E i, j \in 2..Len(trace) : trace[i] = PollOp /\ trace[j].op = "send_command"
    /\ connection_status(backend) = "Disconnected"
    /\ is_listening(backend) = TRUE

\* The places of trace where a Features message was applied.
FeaturesApplied == {i \in DOMAIN trace : IsHandled(trace[i], "features")}

\* C12: the features collection is exactly the items of the last Features
\* message applied (also when they are empty) and nothing else changes it.
C12_FeaturesAreLastMessage ==
    backend.features =
        IF FeaturesApplied = {} THEN <<>>
        ELSE trace[Latest(FeaturesApplied)].msg.items

\* A Features message with items was followed by one without, then by
\* another operation: the collection is empty.
C12_Witness ==
    \E i, j \in FeaturesApplied :
        /\ i < j
        /\ j = Latest(FeaturesApplied)
        /\ j < Len(trace)
        /\ trace[i].msg.items # <<>>
        /\ trace[j].msg.items = <<>>
        /\ backend.features = <<>>

\* C13: a received frame whose tag is none of the six known ones is an
\* UnknownVariant decode error and changes no field of the session state,
\* and the frames received with it are still applied as usual.
C13_UnknownFrameIsSkipped ==
    [][(/\ Stepped
        /\ StepOp = PollOp
        /\ \E i \in DOMAIN inbound : inbound[i].type \notin RecognizedTags)
        => (/\ \A i \in DOMAIN inbound :
                    inbound[i].type \notin RecognizedTags
                        => decode(inbound[i]) = [ok |-> FALSE, error |-> "UnknownVariant"]
            /\ backend' = ApplyAll(backend, inbound))]_vars

\* The operations that insert into the history, and the entry each makes.
Inserts(op) == op.op = "send_command" \/ IsHandled(op, "action")

EntryOf(op) ==
    IF op.op = "send_command"
    THEN HistoryEntry(op.now, op.text, "pending", PendingResult)
    ELSE HistoryEntry(op.now, op.msg.command, op.msg.action, op.msg.result)

Inserted == {i \in DOMAIN trace : Inserts(trace[i])}

\* The entries of the inserting operations among the first n, latest first.
RECURSIVE NewestFirst(_)
NewestFirst(n) ==
    IF n = 0 THEN <<>>
    ELSE IF Inserts(trace[n]) THEN <<EntryOf(trace[n])>> \o NewestFirst(n - 1)
    ELSE NewestFirst(n - 1)

\* C14: while fewer than 500 send_command calls and Action messages have
\* been made, the history read from front to back is exactly their entries
\* in the reverse of the order they were made in, one entry per operation.
C14_HistoryIsReverseArrival ==
    Cardinality(Inserted) < HistoryCapacity
        => backend.history = NewestFirst(Len(trace))

\* Three insertions of both kinds, all different: the last made is at the
\* front and the first made at the back.
C14_Witness ==
    /\ Cardinality(Inserted) = 3
    /\ \E i, j, k \in Inserted :
        /\ i < j /\ j < k
        /\ trace[i].op = "send_command"
        /\ IsHandled(trace[j], "action")
        /\ trace[k].op = "send_command"
        /\ EntryOf(trace[i]) # EntryOf(trace[k])
        /\ backend.history = <<EntryOf(trace[k]), EntryOf(trace[j]), EntryOf(trace[i])>>

\* A client with the timestamps of its history entries blanked.
WithoutTimes(c) ==
    [c EXCEPT !.history = [i \in DOMAIN @ |-> [@[i] EXCEPT !.timestamp = ""]]]

\* C15: from every state with room for two more operations, a Status
\* message applied twice gives the state it gives applied once, and a Status
\* message and a message of another variant give the same state (entry
\* timestamps aside) in either order.
C15_StatusIdempotentAndCommutes ==
    Len(trace) + 2 <= MaxOps =>
        \A s \in StatusMsgs :
            /\ \A t \in Timestamps :
                handle_message(handle_message(backend, s, t), s, t)
                    = handle_message(backend, s, t)
            /\ \A m \in ServerMessages \ StatusMsgs : \A t1, t2 \in Timestamps :
                WithoutTimes(handle_message(handle_message(backend, s, t1), m, t1))
                    = WithoutTimes(handle_message(handle_message(backend, m, t2), s, t2))

\* Listening{true} and then a Status message were applied to a client that
\* had a command sent: the state is the one that the Status message and then
\* Listening{true} give.
C15_Witness ==
    /\ Len(trace) = 3
    /\ trace[1].op = "send_command"
    /\ IsHandled(trace[2], "listening")
    /\ trace[2].msg.active
    /\ IsHandled(trace[3], "status")
    /\ backend =
        handle_message(
            handle_message(
                send_command(BackendClient_new(DefaultUrl), trace[1].text, trace[1].now),
                trace[3].msg, trace[3].now),
            trace[2].msg, trace[2].now)

\* The fields of the client that a message of each variant may change.
Owned(type) ==
    CASE type = "status" ->
            {"solidworks_ok", "qdrant_ok", "ollama_ok", "claude_ok", "status"}
      [] type = "listening" -> {"listening"}
      [] type = "transcription" -> {"last_transcription"}
      [] type = "action" -> {"history"}
      [] type = "features" -> {"features"}
      [] type = "waveform" -> {"waveform"}

\* C16: handle_message changes only the part of the state that belongs to
\* the message's variant, and a Waveform message's samples become the
\* buffer also when there are none.
C16_VariantChangesOnlyItsPart ==
    [][(Stepped /\ StepOp.op = "handle_message") =>
        /\ \A f \in (DOMAIN backend) \ Owned(StepOp.msg.type) : backend'[f] = backend[f]
        /\ IsHandled(StepOp, "waveform") => backend'.waveform = StepOp.msg.samples]_vars

\* A Waveform message without samples was applied to a connected client
\* that held samples: the buffer is empty and the rest is as it was.
C16_Witness ==
    /\ Len(trace) = 3
    /\ IsHandled(trace[1], "waveform")
    /\ trace[1].msg.samples # <<>>
    /\ IsHandled(trace[2], "status")
    /\ IsHandled(trace[3], "waveform")
    /\ trace[3].msg.samples = <<>>
    /\ backend.waveform = <<>>
    /\ connection_status(backend) = "Connected"
    /\ HealthFlags(backend) = StatusFields(trace[2].msg)

\* C17: send_command(text) puts an entry with command text and action
\* "pending" at the front of the history whatever the connection status is,
\* keeps the earlier entries in their order behind it and changes nothing
\* else of the client.
C17_SendInsertsPendingEntry ==
    [][(Stepped /\ StepOp.op = "send_command") =>
        /\ Len(backend'.history) = Len(backend.history) + 1
        /\ Head(backend'.history).command = StepOp.text
        /\ Head(backend'.history).action = "pending"
        /\ Tail(backend'.history) = backend.history
        /\ \A f \in (DOMAIN backend) \ {"history"} : backend'[f] = backend[f]]_vars

\* A command was sent while Disconnected and another while Connected: both
\* are pending entries of the history, the later one in front.
C17_Witness ==
    /\ Len(trace) = 3
    /\ trace[1].op = "send_command"
    /\ IsHandled(trace[2], "status")
    /\ trace[3].op = "send_command"
    /\ trace[1].text # trace[3].text
    /\ Len(backend.history) = 2
    /\ backend.history[1].command = trace[3].text
    /\ backend.history[2].command = trace[1].text
    /\ \A i \in 1..2 : backend.history[i].action = "pending"

\* C18: the connection status is Disconnected until the first Status
\* message is applied and Connected ever after; it is never Connecting and
\* never goes back to Disconnected.
C18_StatusIsMonotone ==
    connection_status(backend) =
        IF StatusApplied = {} THEN "Disconnected" ELSE "Connected"

\* A Status message was applied first, then a poll, a send_command or a
\* toggle_listening, and more: the status is Connected.
C18_Witness ==
    /\ Len(trace) = MaxOps
    /\ IsHandled(trace[1], "status")
    /\ \A i \in 2..Len(trace) : trace[i].op \in {"poll", "send_command", "toggle_listening"}
    /\ \E i \in 2..Len(trace) : trace[i] = PollOp
    /\ connection_status(backend) = "Connected"

\* The place of the last construction of a client in trace (0: the one the
\* application started with), and the calls made on that client since.
LastNew ==
    LET S == {i \in DOMAIN trace : trace[i].op = "new"}
    IN  IF S = {} THEN 0 ELSE Latest(S)

SinceNew(name) == {i \in DOMAIN trace : i > LastNew /\ trace[i].op = name}

\* C19: right after "Reconnect" the session is a fresh one: Disconnected,
\* not listening, all four health flags false, no features, history,
\* waveform or transcription. There is one session at any time: what it
\* holds comes from the calls made since it was constructed, never from
\* calls made on the one it replaced.
C19_ReconnectStartsAfresh ==
    /\ (trace # <<>> /\ LastOp.op = "new") =>
            backend = [url |-> LastOp.url,
                       status |-> "Disconnected",
                       listening |-> FALSE,
                       solidworks_ok |-> FALSE,
                       qdrant_ok |-> FALSE,
                       ollama_ok |-> FALSE,
                       claude_ok |-> FALSE,
                       features |-> <<>>,
                       history |-> <<>>,
                       waveform |-> <<>>,
                       last_transcription |-> <<>>]
    /\ Len(backend.history) = Cardinality(SinceNew("send_command"))
    /\ is_listening(backend) = (Cardinality(SinceNew("toggle_listening")) % 2 = 1)

\* A command was sent, the microphone switched on and the address changed;
\* "Reconnect" has just replaced that session by an empty one.
C19_Witness ==
    /\ trace # <<>>
    /\ LastOp.op = "new"
    /\ LastOp.url # DefaultUrl
    /\ \E i, j \in DOMAIN trace : trace[i].op = "send_command" /\ trace[j] = ToggleOp
    /\ Cardinality({i \in DOMAIN trace : trace[i] = ToggleOp}) = 1
    /\ backend.history = <<>>
    /\ is_listening(backend) = FALSE

AllWhitespace(text) == \A i \in DOMAIN text : text[i] \in Whitespace

\* A text that is not empty and neither starts nor ends with whitespace.
Trimmed(text) ==
    /\ text # <<>>
    /\ text[1] \notin Whitespace
    /\ text[Len(text)] \notin Whitespace

\* t is input without the whitespace around it.
IsTrimOf(t, input) ==
    /\ Trimmed(t)
    /\ \E i, j \in DOMAIN input :
        /\ t = SubSeq(input, i, j)
        /\ AllWhitespace(SubSeq(input, 1, i - 1))
        /\ AllWhitespace(SubSeq(input, j + 1, Len(input)))

\* The step is a frame with the Send button or Enter in it, and the calls
\* that frame makes on the client.
SubmitStep == Len(trace') > Len(trace) /\ trace'[Len(trace) + 1] = UiOp("submit")

FrameCalls == SubSeq(trace', Len(trace) + 2, Len(trace'))

\* C20: submitting an empty or whitespace-only input calls no send_command
\* and leaves the history and the input as they are; submitting any other
\* input calls send_command exactly once, with the trimmed text, and clears
\* the input. So every history entry made through the UI has a command that
\* is not empty and has no whitespace at either end.
C20_SubmitSendsTrimmedOnce ==
    [][/\ \A i \in DOMAIN backend'.history : Trimmed(backend'.history[i].command)
       /\ SubmitStep =>
            IF AllWhitespace(command_input)
            THEN /\ FrameCalls = <<PollOp>>
                 /\ backend'.history = backend.history
                 /\ command_input' = command_input
            ELSE /\ Len(FrameCalls) = 2
                 /\ FrameCalls[1] = PollOp
                 /\ FrameCalls[2].op = "send_command"
                 /\ IsTrimOf(FrameCalls[2].text, command_input)
                 /\ Len(backend'.history) = Len(backend.history) + 1
                 /\ Head(backend'.history).command = FrameCalls[2].text
                 /\ command_input' = <<>>]_vars

\* A whitespace-only input was submitted, then " a ": the history holds the
\* one command "a" and the input is empty.
C20_Witness ==
    /\ \E i, j \in Frames :
        /\ i < j
        /\ trace[i] = TypedOp(<<" ">>)
        /\ trace[i + 2] = UiOp("submit")
        /\ trace[j] = TypedOp(<<" ", "a", " ">>)
        /\ j + 4 = Len(trace)
        /\ trace[j + 2] = UiOp("submit")
        /\ trace[j + 4].op = "send_command"
    /\ Len(backend.history) = 1
    /\ backend.history[1].command = <<"a">>
    /\ command_input = <<>>

====
